---- MODULE Spec2Model ----
(***************************************************************************)
(* gamepad-lock-inhibit: a model of src/gamepad-lock-inhibit.py.           *)
(*                                                                         *)
(* The program is one asyncio event loop (a FIFO queue of ready handles)   *)
(* that hosts the main task, the Bridge task                               *)
(* (inhibit_idle_when_gamepads_active), one monitor task per device and    *)
(* the callbacks that the udev observer thread hands over with             *)
(* call_soon_threadsafe.  The state is the fields of GamepadsWatcher,      *)
(* GamepadsFinder and IdleLock, the position of every task, and the ready  *)
(* queue.                                                                  *)
(***************************************************************************)
EXTENDS Integers, Sequences, FiniteSets, TLC

\* ------------------------------------------------------------------ bounds
MaxTasks == 3        \* monitor tasks ever created in one run
MaxEnv   == 3        \* events of the environment in one run: hotplug
                     \* callbacks, read errors, timer expiries, the
                     \* interrupt (input events are not counted: a task
                     \* has at most one read pending)
MaxObserve == 2      \* hotplug callbacks in one run of the hotplug path alone

Paths   == {"event3", "event4"}
NoPath  == "none"
TaskIds == 1..MaxTasks

\* the order in which pyudev enumerates the devices (list_devices)
EnumOrder == <<"event3", "event4">>

VARIABLES
  ready,             \* the loop's queue of ready handles (FIFO)
  tasks,             \* GamepadsWatcher.tasks, an insertion-ordered dict
  devices,           \* GamepadsWatcher.devices: path -> owner task of the handle
  started,           \* GamepadsWatcher.started
  gamepad_active,    \* GamepadsWatcher.gamepad_active
  mtask,             \* every monitor task: its path, position and outcome
  bridge,            \* the Bridge task
  fd,                \* IdleLock.fd: "None" or "fd"
  held,              \* inhibitor locks this program holds with logind
  main,              \* the main task
  gather,            \* the asyncio.gather of GamepadsWatcher.stop
  finder,            \* the observer of GamepadsFinder: init, started, stopped
  sigint,            \* the interrupt signal has been delivered
  runner,            \* asyncio.run: running, teardown, closed
  lastRun,           \* the handler the loop ran last, and what it did
  activitySinceTick, \* an input event set the flag since the last tick
  lastEvent,         \* the hotplug notification the observer handled last
  env                \* the events of the environment so far (see MaxEnv)

vars == <<ready, tasks, devices, started, gamepad_active, mtask, bridge, fd,
          held, main, gather, finder, sigint, runner, lastRun,
          activitySinceTick, lastEvent, env>>

\* ------------------------------------------------- the ordered dict tasks
\* An entry is [key |-> path, val |-> 0 (None) or a task id].
Keys(d)   == [i \in 1..Len(d) |-> d[i].key]
Values(d) == [i \in 1..Len(d) |-> d[i].val]
HasKey(d, k) == \E i \in 1..Len(d) : d[i].key = k
IndexOf(d, k) == CHOOSE i \in 1..Len(d) : d[i].key = k
\* dict.get(k, None): 0 stands for None
Get(d, k) == IF HasKey(d, k) THEN d[IndexOf(d, k)].val ELSE 0
\* d[k] = v: an existing key keeps its place, a new key goes last
Set(d, k, v) ==
  IF HasKey(d, k)
    THEN [i \in 1..Len(d) |-> IF d[i].key = k THEN [key |-> k, val |-> v] ELSE d[i]]
    ELSE Append(d, [key |-> k, val |-> v])
\* del d[k], for a key that is present
Del(d, k) == SelectSeq(d, LAMBDA e : e.key # k)

\* ------------------------------------------------------------ the records
Handle(k, p, t) == [k |-> k, p |-> p, t |-> t]

FreeTask == [path |-> NoPath, st |-> "free", must |-> FALSE, cause |-> "none",
             res |-> "none", dev |-> "none"]

NoRun == [k |-> "none", err |-> "none",
          active |-> FALSE, op |-> "none", fdBefore |-> "None",
          requested |-> FALSE, released |-> FALSE]
Ran(k, err) == [NoRun EXCEPT !.k = k, !.err = err]

NoEvent == [action |-> "none", joystick |-> "missing", sys_name |-> <<>>,
            path |-> NoPath, scheduled |-> "none"]

Init ==
  /\ ready = <<Handle("main", NoPath, 0)>>
  /\ tasks = <<>>
  /\ devices = [p \in Paths |-> 0]
  /\ started = FALSE
  /\ gamepad_active = FALSE
  /\ mtask = [t \in TaskIds |-> FreeTask]
  /\ bridge = [st |-> "none", must |-> FALSE, cause |-> "none", res |-> "none",
               cancelReq |-> FALSE, finalUnlocks |-> 0]
  /\ fd = "None"
  /\ held = 0
  /\ main = [st |-> "new", must |-> FALSE, res |-> "none", stop |-> "no"]
  /\ gather = [children |-> <<>>, nfinished |-> 0, outer |-> "none"]
  /\ finder = "init"
  /\ sigint = FALSE
  /\ runner = "running"
  /\ lastRun = NoRun
  /\ activitySinceTick = FALSE
  /\ lastEvent = NoEvent
  /\ env = 0

\* ====================================================== GamepadsFinder
SYS_NAME_PREFIX == <<"e", "v", "e", "n", "t">>

\* str.startswith
StartsWith(s, prefix) ==
  /\ Len(s) >= Len(prefix)
  /\ SubSeq(s, 1, Len(prefix)) = prefix

\* The devices of the input subsystem udev can report: the event node and
\* the js node of a controller, and the parent input device (no node).
UdevDevices ==
  { [sys_name |-> <<"e", "v", "e", "n", "t", "3">>, device_node |-> "event3"],
    [sys_name |-> <<"e", "v", "e", "n", "t", "4">>, device_node |-> "event4"],
    [sys_name |-> <<"j", "s", "0">>,                device_node |-> "js0"],
    [sys_name |-> <<"i", "n", "p", "u", "t", "5">>, device_node |-> NoPath] }

\* A notification of the monitor: the device, the action and the value of
\* the property ID_INPUT_JOYSTICK ("missing": the device has no such key).
Notifications ==
  [dev : UdevDevices, action : {"add", "remove", "change"},
   joystick : {"missing", "0", "1"}]

\* GamepadsFinder.get_device_path
get_device_path(dev) == dev.device_node

\* properties.asbool('ID_INPUT_JOYSTICK'): "KeyError" for a missing key
asbool(v) == IF v = "missing" THEN "KeyError" ELSE IF v = "1" THEN "True" ELSE "False"

\* _on_new_event without its test of device.action: every action that is
\* not an add takes the else branch
on_new_event_noActionFilter(n) ==
  IF asbool(n.joystick) # "True" THEN "none"
  ELSE IF ~StartsWith(n.dev.sys_name, SYS_NAME_PREFIX) THEN "none"
  ELSE IF n.action = "add" THEN "add" ELSE "remove"

\* GamepadsFinder._on_new_event: the callback it schedules on the loop,
\* "add", "remove" or "none"
on_new_event(n) ==
  IF n.action \notin {"add", "remove"} THEN "none"
  ELSE IF asbool(n.joystick) = "KeyError" THEN "none"
  ELSE IF asbool(n.joystick) # "True" THEN "none"
  ELSE IF ~StartsWith(n.dev.sys_name, SYS_NAME_PREFIX) THEN "none"
  ELSE IF n.action = "add" THEN "add" ELSE "remove"

\* loop.call_soon_threadsafe(cb, path) by the observer thread
Scheduled(n) ==
  IF on_new_event(n) = "none" THEN <<>>
  ELSE <<Handle(on_new_event(n), get_device_path(n.dev), 0)>>

Recorded(n) ==
  [action |-> n.action, joystick |-> n.joystick, sys_name |-> n.dev.sys_name,
   path |-> get_device_path(n.dev), scheduled |-> on_new_event(n)]

\* _on_new_event with a callback that goes to the front of the queue
Notify_front(n) ==
  /\ finder = "started"
  /\ runner # "closed"
  /\ env < MaxEnv
  /\ ready' = Scheduled(n) \o ready
  /\ env' = env + Len(Scheduled(n))
  /\ UNCHANGED <<tasks, devices, started, gamepad_active, mtask, bridge, fd,
                 held, main, gather, finder, sigint, runner, lastRun,
                 activitySinceTick>>

\* The observer thread receives a notification and runs _on_new_event.
Notify(n) ==
  /\ finder = "started"
  /\ runner # "closed"
  /\ env < MaxEnv
  /\ ready' = ready \o Scheduled(n)
  /\ env' = env + Len(Scheduled(n))
  /\ UNCHANGED <<tasks, devices, started, gamepad_active, mtask, bridge, fd,
                 held, main, gather, finder, sigint, runner, lastRun,
                 activitySinceTick>>

\* the notifications for which _on_new_event schedules a callback; the
\* others leave the observer and the loop as they are
Passing == {n \in Notifications : on_new_event(n) # "none"}

Hotplug == \E n \in Passing : Notify(n) /\ UNCHANGED lastEvent

\* The same step, with the notification and its outcome kept for inspection.
Observe ==
  \E n \in Notifications :
    /\ env < MaxObserve
    /\ Notify(n)
    /\ lastEvent' = Recorded(n)

\* ============================================================ asyncio
\* The loop runs the handle at the head of the queue, unless it is closed.
Head1(k) ==
  /\ runner # "closed"
  /\ ready # <<>>
  /\ Head(ready).k = k

\* Task.cancel() on a monitor task: a task waiting for its read is woken
\* with CancelledError, a task whose step is already queued gets
\* _must_cancel, a finished task is left alone.
CancelOne(r) ==
  IF r.st = "reading" THEN [r EXCEPT !.st = "woken", !.cause = "cancel"]
  ELSE IF r.st \in {"new", "woken"} THEN [r EXCEPT !.must = TRUE]
  ELSE r

\* the wake-ups that cancelling the tasks of ts, in this order, queues
RECURSIVE CancelWakes(_, _)
CancelWakes(mt, ts) ==
  IF ts = <<>> THEN <<>>
  ELSE (IF Head(ts) # 0 /\ mt[Head(ts)].st = "reading"
          THEN <<Handle("mon", mt[Head(ts)].path, Head(ts))>> ELSE <<>>)
       \o CancelWakes(mt, Tail(ts))

InSeq(x, sq) == \E i \in 1..Len(sq) : sq[i] = x

CancelTasks(mt, ts) ==
  [t \in TaskIds |-> IF InSeq(t, ts) THEN CancelOne(mt[t]) ELSE mt[t]]

\* asyncio.create_task numbers the tasks in the order of their creation
FreeIds(mt) == {t \in TaskIds : mt[t].st = "free"}
NewId(mt) == CHOOSE t \in FreeIds(mt) : \A u \in FreeIds(mt) : t <= u

\* ====================================================== GamepadsWatcher
NewTask(p) == [path |-> p, st |-> "new", must |-> FALSE, cause |-> "none",
               res |-> "none", dev |-> "open"]

\* add_device without its test of the task already present
add_device_noPresentCheck(p) ==
  /\ Head1("add") /\ Head(ready).p = p
  /\ IF ~started
       THEN /\ tasks' = Set(tasks, p, 0)
            /\ ready' = Tail(ready)
            /\ lastRun' = Ran("add", "none")
            /\ UNCHANGED <<devices, mtask>>
       ELSE /\ FreeIds(mtask) # {}
            /\ LET t == NewId(mtask) IN
                 /\ devices' = [devices EXCEPT ![p] = t]
                 /\ tasks' = Set(tasks, p, t)
                 /\ mtask' = [mtask EXCEPT ![t] = NewTask(p)]
                 /\ ready' = Append(Tail(ready), Handle("mon", p, t))
                 /\ lastRun' = Ran("add", "none")
  /\ UNCHANGED <<started, gamepad_active, bridge, fd, held, main, gather,
                 finder, sigint, runner, activitySinceTick, lastEvent, env>>

\* add_device without its test of self.started
add_device_noStartedCheck(p) ==
  /\ Head1("add") /\ Head(ready).p = p
  /\ IF Get(tasks, p) # 0
       THEN /\ ready' = Tail(ready)
            /\ lastRun' = Ran("add", "present")
            /\ UNCHANGED <<tasks, devices, mtask>>
       ELSE /\ FreeIds(mtask) # {}
            /\ LET t == NewId(mtask) IN
                 /\ devices' = [devices EXCEPT ![p] = t]
                 /\ tasks' = Set(tasks, p, t)
                 /\ mtask' = [mtask EXCEPT ![t] = NewTask(p)]
                 /\ ready' = Append(Tail(ready), Handle("mon", p, t))
                 /\ lastRun' = Ran("add", "none")
  /\ UNCHANGED <<started, gamepad_active, bridge, fd, held, main, gather,
                 finder, sigint, runner, activitySinceTick, lastEvent, env>>

\* GamepadsWatcher.add_device, run by the loop
add_device(p) ==
  /\ Head1("add") /\ Head(ready).p = p
  /\ IF Get(tasks, p) # 0
       THEN \* "already present"
            /\ ready' = Tail(ready)
            /\ lastRun' = Ran("add", "present")
            /\ UNCHANGED <<tasks, devices, mtask>>
       ELSE IF ~started
       THEN /\ tasks' = Set(tasks, p, 0)
            /\ ready' = Tail(ready)
            /\ lastRun' = Ran("add", "none")
            /\ UNCHANGED <<devices, mtask>>
       ELSE \* create_monitor_task
            \/ /\ FreeIds(mtask) # {}
               /\ LET t == NewId(mtask) IN
                    /\ devices' = [devices EXCEPT ![p] = t]
                    /\ tasks' = Set(tasks, p, t)
                    /\ mtask' = [mtask EXCEPT ![t] = NewTask(p)]
                    /\ ready' = Append(Tail(ready), Handle("mon", p, t))
                    /\ lastRun' = Ran("add", "none")
            \/ \* evdev.InputDevice(device) raises: the device cannot be opened
               /\ ready' = Tail(ready)
               /\ lastRun' = Ran("add", "OSError")
               /\ UNCHANGED <<tasks, devices, mtask>>
  /\ UNCHANGED <<started, gamepad_active, bridge, fd, held, main, gather,
                 finder, sigint, runner, activitySinceTick, lastEvent, env>>

\* remove_device that deletes the entry of the task it cancels
remove_device_dropsEntry(p) ==
  /\ Head1("remove") /\ Head(ready).p = p
  /\ LET t == Get(tasks, p) IN
     IF t = 0
       THEN /\ tasks' = Del(tasks, p)
            /\ ready' = Tail(ready)
            /\ lastRun' = Ran("remove", "none")
            /\ UNCHANGED <<devices, mtask>>
       ELSE LET cancelled == CancelTasks(mtask, <<t>>) IN
            /\ ready' = Tail(ready) \o CancelWakes(mtask, <<t>>)
            /\ IF devices[p] = 0
                 THEN /\ mtask' = cancelled
                      /\ lastRun' = Ran("remove", "KeyError")
                      /\ UNCHANGED <<devices, tasks>>
                 ELSE /\ mtask' = [cancelled EXCEPT ![devices[p]].dev = "closed"]
                      /\ devices' = [devices EXCEPT ![p] = 0]
                      /\ tasks' = Del(tasks, p)
                      /\ lastRun' = Ran("remove", "none")
  /\ UNCHANGED <<started, gamepad_active, bridge, fd, held, main, gather,
                 finder, sigint, runner, activitySinceTick, lastEvent, env>>

\* GamepadsWatcher.remove_device, run by the loop
remove_device(p) ==
  /\ Head1("remove") /\ Head(ready).p = p
  /\ LET t == Get(tasks, p) IN
     IF t = 0
       THEN /\ tasks' = Del(tasks, p)     \* KeyError is passed over
            /\ ready' = Tail(ready)
            /\ lastRun' = Ran("remove", "none")
            /\ UNCHANGED <<devices, mtask>>
       ELSE LET cancelled == CancelTasks(mtask, <<t>>) IN
            /\ ready' = Tail(ready) \o CancelWakes(mtask, <<t>>)
            /\ IF devices[p] = 0
                 THEN \* self.devices[device] raises KeyError
                      /\ mtask' = cancelled
                      /\ lastRun' = Ran("remove", "KeyError")
                      /\ UNCHANGED devices
                 ELSE /\ mtask' = [cancelled EXCEPT ![devices[p]].dev = "closed"]
                      /\ devices' = [devices EXCEPT ![p] = 0]
                      /\ lastRun' = Ran("remove", "none")
            /\ UNCHANGED tasks
  /\ UNCHANGED <<started, gamepad_active, bridge, fd, held, main, gather,
                 finder, sigint, runner, activitySinceTick, lastEvent, env>>

\* finish_removing_device that empties the task map
finish_removing_device_clear(p, t) ==
  /\ Head1("finish") /\ Head(ready).p = p /\ Head(ready).t = t
  /\ ready' = Tail(ready)
  /\ tasks' = <<>>
  /\ lastRun' = Ran("finish", "none")
  /\ UNCHANGED <<devices, started, gamepad_active, mtask, bridge, fd, held,
                 main, gather, finder, sigint, runner, activitySinceTick,
                 lastEvent, env>>

\* GamepadsWatcher.finish_removing_device, the done callback of task t
finish_removing_device(p, t) ==
  /\ Head1("finish") /\ Head(ready).p = p /\ Head(ready).t = t
  /\ ready' = Tail(ready)
  /\ IF HasKey(tasks, p)
       THEN /\ tasks' = Del(tasks, p)
            /\ lastRun' = Ran("finish", "none")
       ELSE /\ lastRun' = Ran("finish", "KeyError")
            /\ UNCHANGED tasks
  /\ UNCHANGED <<devices, started, gamepad_active, mtask, bridge, fd, held,
                 main, gather, finder, sigint, runner, activitySinceTick,
                 lastEvent, env>>

\* create_monitor_task without its add_done_callback
DoneCallbacks_noFinish(p, t) ==
  IF InSeq(t, gather.children) THEN <<Handle("gathercb", p, t)>> ELSE <<>>

\* The done callbacks of monitor task t, in the order they were added:
\* finish_removing_device (create_monitor_task), then gather's callback
\* if stop() is waiting for the task.
DoneCallbacks(p, t) ==
  <<Handle("finish", p, t)>>
  \o (IF InSeq(t, gather.children) THEN <<Handle("gathercb", p, t)>> ELSE <<>>)

\* a finished task keeps in cause why it ended: "cancel" or "OSError"
Finished(r, res, why) ==
  [r EXCEPT !.st = "done", !.must = FALSE, !.cause = why, !.res = res]

\* One step of GamepadsWatcher.monitor_gamepad_events for task t.
monitor_gamepad_events(t) ==
  /\ Head1("mon") /\ Head(ready).t = t
  /\ LET r == mtask[t]
         p == r.path IN
     IF r.st = "new" /\ r.must
       THEN \* cancelled before its first step: the body never runs
            /\ mtask' = [mtask EXCEPT ![t] = Finished(r, "cancelled", "cancel")]
            /\ ready' = Tail(ready) \o DoneCallbacks(p, t)
            /\ lastRun' = Ran("other", "none")
            /\ UNCHANGED <<gamepad_active, activitySinceTick>>
     ELSE IF r.st = "new"
       THEN \* first step: waits for the first read
            /\ mtask' = [mtask EXCEPT ![t].st = "reading"]
            /\ ready' = Tail(ready)
            /\ lastRun' = Ran("other", "none")
            /\ UNCHANGED <<gamepad_active, activitySinceTick>>
     ELSE IF r.must \/ r.cause = "cancel"
       THEN \* except CancelledError: the task returns
            /\ mtask' = [mtask EXCEPT ![t] = Finished(r, "returned", "cancel")]
            /\ ready' = Tail(ready) \o DoneCallbacks(p, t)
            /\ lastRun' = Ran("other", "none")
            /\ UNCHANGED <<gamepad_active, activitySinceTick>>
     ELSE IF r.cause = "event"
       THEN \* self.gamepad_active = True, then the next read
            /\ gamepad_active' = TRUE
            /\ activitySinceTick' = TRUE
            /\ mtask' = [mtask EXCEPT ![t].st = "reading", ![t].cause = "none"]
            /\ ready' = Tail(ready)
            /\ lastRun' = Ran("other", "none")
     ELSE \* except OSError, errno 19 or another: the task returns
            /\ mtask' = [mtask EXCEPT ![t] = Finished(r, "returned", "OSError")]
            /\ ready' = Tail(ready) \o DoneCallbacks(p, t)
            /\ \E errno \in {"ENODEV", "EIO"} : lastRun' = Ran("mon", errno)
            /\ UNCHANGED <<gamepad_active, activitySinceTick>>
  /\ UNCHANGED <<tasks, devices, started, bridge, fd, held, main, gather,
                 finder, sigint, runner, lastEvent, env>>

\* The device of task t delivers an input event: its read completes.
InputEvent(t) ==
  /\ runner # "closed"
  /\ mtask[t].st = "reading"
  /\ mtask' = [mtask EXCEPT ![t].st = "woken", ![t].cause = "event"]
  /\ ready' = Append(ready, Handle("mon", mtask[t].path, t))
  /\ UNCHANGED <<tasks, devices, started, gamepad_active, bridge, fd, held,
                 main, gather, finder, sigint, runner, lastRun,
                 activitySinceTick, lastEvent, env>>

\* The read of task t fails with OSError.
ReadError(t) ==
  /\ runner # "closed"
  /\ env < MaxEnv
  /\ env' = env + 1
  /\ mtask[t].st = "reading"
  /\ mtask' = [mtask EXCEPT ![t].st = "woken", ![t].cause = "OSError"]
  /\ ready' = Append(ready, Handle("mon", mtask[t].path, t))
  /\ UNCHANGED <<tasks, devices, started, gamepad_active, bridge, fd, held,
                 main, gather, finder, sigint, runner, lastRun,
                 activitySinceTick, lastEvent>>

\* ============================================================= IdleLock
\* lock_idle without its test of self.fd
lock_idle_noHeldCheck(f, h, ok) ==
  IF ok THEN [fd |-> "fd", held |-> h + 1, requested |-> TRUE,
              released |-> FALSE, err |-> "none"]
  ELSE [fd |-> f, held |-> h, requested |-> TRUE, released |-> FALSE,
        err |-> "DBusException"]

\* IdleLock.lock_idle; ok: the Inhibit request of this call succeeds.
\* The result is the new fd, the locks then held, whether Inhibit was
\* requested and the error raised.
lock_idle(f, h, ok) ==
  IF f # "None"
    THEN [fd |-> f, held |-> h, requested |-> FALSE, released |-> FALSE,
          err |-> "none"]
  ELSE IF ok
    THEN [fd |-> "fd", held |-> h + 1, requested |-> TRUE, released |-> FALSE,
          err |-> "none"]
  ELSE [fd |-> "None", held |-> h, requested |-> TRUE, released |-> FALSE,
        err |-> "DBusException"]

\* IdleLock.unlock_idle
unlock_idle(f, h) ==
  IF f = "None"
    THEN [fd |-> f, held |-> h, requested |-> FALSE, released |-> FALSE,
          err |-> "none"]
  ELSE [fd |-> "None", held |-> h - 1, requested |-> FALSE, released |-> TRUE,
        err |-> "none"]

\* get_and_reset_active that resets before it reads
get_and_reset_active_resetFirst(flag) == [active |-> FALSE, gamepad_active |-> FALSE]

\* get_and_reset_active without the reset
get_and_reset_active_noReset(flag) == [active |-> flag, gamepad_active |-> flag]

\* GamepadsWatcher.get_and_reset_active: the value returned and the flag left
get_and_reset_active(flag) == [active |-> flag, gamepad_active |-> FALSE]

\* ============================================================ the Bridge
\* Task.cancel() on the Bridge task
CancelBridge(b) ==
  IF b.st = "sleeping"
    THEN [b EXCEPT !.st = "woken", !.cause = "cancel", !.cancelReq = TRUE]
  ELSE IF b.st \in {"new", "woken"}
    THEN [b EXCEPT !.must = TRUE, !.cancelReq = TRUE]
  ELSE b
CancelBridgeWake(b) ==
  IF b.st = "sleeping" THEN <<Handle("bridge", NoPath, 0)>> ELSE <<>>

\* main awaits the Bridge task: its end wakes main
WakeMainFromBridge(m) ==
  IF m.st = "awaitBridge" THEN [m EXCEPT !.st = "wokenBridge"] ELSE m
WakeMainHandle(m) ==
  IF m.st = "awaitBridge" THEN <<Handle("main", NoPath, 0)>> ELSE <<>>

BridgeDone(b, res, unlocks) ==
  [b EXCEPT !.st = "done", !.must = FALSE, !.cause = "none", !.res = res,
            !.finalUnlocks = unlocks]

\* the handler of CancelledError without its unlock_idle
cancel_handler_noUnlock(f, h) ==
  [fd |-> f, held |-> h, requested |-> FALSE, released |-> FALSE,
   err |-> "none", calls |-> 0]

\* except asyncio.CancelledError in the Bridge: unlock_idle, once; the
\* result of unlock_idle and the number of its calls
cancel_handler(f, h) ==
  [fd |-> unlock_idle(f, h).fd, held |-> unlock_idle(f, h).held,
   requested |-> FALSE, released |-> unlock_idle(f, h).released,
   err |-> "none", calls |-> 1]

\* One step of inhibit_idle_when_gamepads_active.
BridgeFirstStep ==
  /\ Head1("bridge")
  /\ bridge.st = "new"
  /\ IF bridge.must
       THEN \* cancelled before its first step: the body never runs
            /\ bridge' = BridgeDone(bridge, "cancelled", 0)
            /\ main' = WakeMainFromBridge(main)
            /\ ready' = Tail(ready) \o WakeMainHandle(main)
            /\ lastRun' = Ran("other", "none")
       ELSE \* IdleLock(), then the first sleep
            /\ bridge' = [bridge EXCEPT !.st = "sleeping"]
            /\ ready' = Tail(ready)
            /\ lastRun' = Ran("other", "none")
            /\ UNCHANGED main
  /\ UNCHANGED <<tasks, devices, started, gamepad_active, mtask, fd, held,
                 gather, finder, sigint, runner, activitySinceTick, lastEvent, env>>

\* except asyncio.CancelledError: the final unlock_idle, then raise
BridgeCancelled ==
  /\ Head1("bridge")
  /\ bridge.st = "woken"
  /\ bridge.must \/ bridge.cause = "cancel"
  /\ LET u == cancel_handler(fd, held) IN
       /\ fd' = u.fd
       /\ held' = u.held
       /\ bridge' = BridgeDone(bridge, "cancelled", u.calls)
       /\ lastRun' = [Ran("cancelled", u.err) EXCEPT
                        !.op = "unlock", !.fdBefore = fd,
                        !.released = u.released]
  /\ main' = WakeMainFromBridge(main)
  /\ ready' = Tail(ready) \o WakeMainHandle(main)
  /\ UNCHANGED <<tasks, devices, started, gamepad_active, mtask, gather,
                 finder, sigint, runner, activitySinceTick, lastEvent, env>>

\* A sampling tick: get_and_reset_active, then lock_idle or unlock_idle.
Tick ==
  /\ Head1("bridge")
  /\ bridge.st = "woken"
  /\ ~bridge.must /\ bridge.cause = "timer"
  /\ \E ok \in BOOLEAN :
       LET g == get_and_reset_active(gamepad_active)
           u == IF g.active THEN lock_idle(fd, held, ok)
                            ELSE unlock_idle(fd, held) IN
         /\ (ok \/ (g.active /\ fd = "None"))  \* ok matters to Inhibit only
         /\ gamepad_active' = g.gamepad_active
         /\ fd' = u.fd
         /\ held' = u.held
         /\ lastRun' = [Ran("tick", u.err) EXCEPT
                          !.active = activitySinceTick,
                          !.op = IF g.active THEN "lock" ELSE "unlock",
                          !.fdBefore = fd, !.requested = u.requested,
                          !.released = u.released]
         /\ IF u.err = "none"
              THEN /\ bridge' = [bridge EXCEPT !.st = "sleeping", !.cause = "none"]
                   /\ ready' = Tail(ready)
                   /\ UNCHANGED main
              ELSE \* the error of Inhibit leaves the loop: the task fails
                   /\ bridge' = BridgeDone(bridge, "failed", 0)
                   /\ main' = WakeMainFromBridge(main)
                   /\ ready' = Tail(ready) \o WakeMainHandle(main)
  /\ activitySinceTick' = FALSE
  /\ UNCHANGED <<tasks, devices, started, mtask, gather, finder, sigint,
                 runner, lastEvent, env>>

\* asyncio.sleep(interval) is over
TimerFires ==
  /\ runner # "closed"
  /\ env < MaxEnv
  /\ env' = env + 1
  /\ bridge.st = "sleeping"
  /\ bridge' = [bridge EXCEPT !.st = "woken", !.cause = "timer"]
  /\ ready' = Append(ready, Handle("bridge", NoPath, 0))
  /\ UNCHANGED <<tasks, devices, started, gamepad_active, mtask, fd, held,
                 main, gather, finder, sigint, runner, lastRun,
                 activitySinceTick, lastEvent>>

\* ================================================================= main
\* the subsequence of EnumOrder with the paths of S: what discover finds
RECURSIVE Enumerate(_, _)
Enumerate(order, S) ==
  IF order = <<>> THEN <<>>
  ELSE (IF Head(order) \in S THEN <<Head(order)>> ELSE <<>>)
       \o Enumerate(Tail(order), S)

\* GamepadsWatcher.set_init_devices
RECURSIVE set_init_devices(_, _)
set_init_devices(d, devs) ==
  IF devs = <<>> THEN d
  ELSE set_init_devices(Set(d, Head(devs), 0), Tail(devs))

\* start() that passes over the last of the keys
StartTasks_skipLast(d, n) ==
  [i \in 1..Len(d) |-> IF i < n THEN [key |-> d[i].key, val |-> i] ELSE d[i]]

\* GamepadsWatcher.start creates the monitor tasks of the first n keys, in
\* the order of the keys; the k-th gets task id k (no task exists before).
StartTasks(d, n) ==
  [i \in 1..Len(d) |-> IF i <= n THEN [key |-> d[i].key, val |-> i] ELSE d[i]]
StartHandles(d, n) == [i \in 1..n |-> Handle("mon", d[i].key, i)]

FinishMain(m, res) == [m EXCEPT !.st = "done", !.must = FALSE, !.res = res]
\* asyncio.run stops the loop when main is done
LoopStop == <<Handle("loopstop", NoPath, 0)>>

\* main() cancelled before its first step: its body never runs
MainNeverRuns ==
  /\ Head1("main")
  /\ main.st = "new" /\ main.must
  /\ main' = FinishMain(main, "cancelled")
  /\ ready' = Tail(ready) \o LoopStop
  /\ lastRun' = Ran("main", "CancelledError")
  /\ UNCHANGED <<tasks, devices, started, gamepad_active, mtask, bridge, fd,
                 held, gather, finder, sigint, runner, activitySinceTick,
                 lastEvent, env>>

\* main() up to "await inhibit_task": attached is what discover finds, n the
\* number of devices that start() opens before an open fails (all, if none).
MainStart ==
  /\ Head1("main")
  /\ main.st = "new" /\ ~main.must
  /\ \E attached \in SUBSET Paths :
       LET d == set_init_devices(tasks, Enumerate(EnumOrder, attached)) IN
       \E n \in 0..Len(d) :
         /\ n <= MaxTasks
         /\ tasks' = StartTasks(d, n)
         /\ devices' = [p \in Paths |->
                          IF \E i \in 1..n : d[i].key = p
                            THEN CHOOSE i \in 1..n : d[i].key = p ELSE 0]
         /\ mtask' = [t \in TaskIds |->
                        IF t <= n THEN NewTask(d[t].key) ELSE mtask[t]]
         /\ bridge' = [bridge EXCEPT !.st = "new"]
         /\ finder' = "started"
         /\ started' = TRUE
         /\ IF n = Len(d)
              THEN /\ main' = [main EXCEPT !.st = "awaitBridge"]
                   /\ ready' = Tail(ready) \o <<Handle("bridge", NoPath, 0)>>
                                 \o StartHandles(d, n)
                   /\ lastRun' = Ran("main", "none")
              ELSE \* evdev.InputDevice raises in start(): main fails
                   /\ main' = FinishMain(main, "failed")
                   /\ ready' = Tail(ready) \o <<Handle("bridge", NoPath, 0)>>
                                 \o StartHandles(d, n) \o LoopStop
                   /\ lastRun' = Ran("main", "OSError")
  /\ UNCHANGED <<gamepad_active, fd, held, gather, sigint, runner,
                 activitySinceTick, lastEvent, env>>

\* The exception of the Bridge task (not a cancellation) leaves main.
MainFails ==
  /\ Head1("main")
  /\ main.st = "wokenBridge"
  /\ ~main.must /\ bridge.res = "failed"
  /\ main' = FinishMain(main, "failed")
  /\ ready' = Tail(ready) \o LoopStop
  /\ lastRun' = Ran("main", "DBusException")
  /\ UNCHANGED <<tasks, devices, started, gamepad_active, mtask, bridge, fd,
                 held, gather, finder, sigint, runner, activitySinceTick,
                 lastEvent, env>>

\* the gather callbacks of the children that are done when gather is called
RECURSIVE GatherNow(_, _)
GatherNow(mt, ts) ==
  IF ts = <<>> THEN <<>>
  ELSE (IF mt[Head(ts)].st = "done"
          THEN <<Handle("gathercb", mt[Head(ts)].path, Head(ts))>> ELSE <<>>)
       \o GatherNow(mt, Tail(ts))

\* stop without the await of the gather
stop_noWait(ts) ==
  [started |-> FALSE, mtask |-> CancelTasks(mtask, ts),
   wakes |-> CancelWakes(mtask, ts), waits |-> FALSE]

\* GamepadsWatcher.stop up to its await: started, the tasks cancelled, the
\* wake-ups queued, and whether it waits (a gather of nothing is done at
\* once)
stop(ts) ==
  [started |-> FALSE, mtask |-> CancelTasks(mtask, ts),
   wakes |-> CancelWakes(mtask, ts), waits |-> ts # <<>>]

\* "await watcher.stop()" in a task whose next statement is
\* inhibit_task.cancel(), the last one: stop() up to its await and, when it
\* does not have to wait, the rest of the caller.  who names the handler in
\* lastRun.
AwaitStop(who) ==
  /\ LET ts == Values(tasks)
         s  == stop(ts) IN
       /\ started' = s.started
       /\ IF InSeq(0, ts)
            THEN \* task.cancel() on None raises AttributeError; the tasks
                 \* before the None are cancelled
                 LET k == CHOOSE i \in 1..Len(ts) :
                            ts[i] = 0 /\ \A j \in 1..(i-1) : ts[j] # 0
                     before == SubSeq(ts, 1, k - 1) IN
                 /\ mtask' = CancelTasks(mtask, before)
                 /\ main' = [FinishMain(main, "failed") EXCEPT !.stop = "raised"]
                 /\ ready' = Tail(ready) \o CancelWakes(mtask, before) \o LoopStop
                 /\ lastRun' = Ran(who, "AttributeError")
                 /\ UNCHANGED <<gather, bridge>>
            ELSE IF s.waits
            THEN /\ mtask' = s.mtask
                 /\ gather' = [children |-> ts, nfinished |-> 0,
                               outer |-> "pending"]
                 /\ main' = [main EXCEPT !.st = "awaitGather", !.must = FALSE,
                                         !.stop = "in"]
                 /\ ready' = Tail(ready) \o s.wakes \o GatherNow(mtask, ts)
                 /\ lastRun' = Ran(who, "none")
                 /\ UNCHANGED bridge
            ELSE \* stop() returns at once: inhibit_task.cancel(), main returns
                 /\ mtask' = s.mtask
                 /\ bridge' = CancelBridge(bridge)
                 /\ main' = [FinishMain(main, "returned") EXCEPT
                               !.stop = "returned"]
                 /\ ready' = Tail(ready) \o s.wakes \o CancelBridgeWake(bridge)
                               \o LoopStop
                 /\ lastRun' = Ran(who, "none")
                 /\ UNCHANGED gather
  /\ UNCHANGED <<tasks, devices, gamepad_active, fd, held, sigint, runner,
                 activitySinceTick, lastEvent, env>>

\* except asyncio.CancelledError in main: finder.stop(), watcher.stop()
\* and, when stop does not have to wait, inhibit_task.cancel().
MainShutdown ==
  /\ Head1("main")
  /\ main.st = "wokenBridge"
  /\ main.must \/ bridge.res = "cancelled"
  /\ finder' = "stopped"
  /\ AwaitStop("main")

\* asyncio.gather's callback for its child t
GatherCallback(t) ==
  /\ Head1("gathercb") /\ Head(ready).t = t
  /\ lastRun' = Ran("other", "none")
  /\ IF gather.outer # "pending"
       THEN /\ gather' = [gather EXCEPT !.nfinished = @ + 1]
            /\ ready' = Tail(ready)
            /\ UNCHANGED main
       ELSE IF mtask[t].res = "cancelled"
       THEN \* a cancelled child: the gather raises CancelledError at once
            /\ gather' = [gather EXCEPT !.nfinished = @ + 1,
                                        !.outer = "cancelled"]
            /\ main' = [main EXCEPT !.st = "wokenGather"]
            /\ ready' = Append(Tail(ready), Handle("main", NoPath, 0))
       ELSE IF gather.nfinished + 1 = Len(gather.children)
       THEN /\ gather' = [gather EXCEPT !.nfinished = @ + 1,
                                        !.outer = "result"]
            /\ main' = [main EXCEPT !.st = "wokenGather"]
            /\ ready' = Append(Tail(ready), Handle("main", NoPath, 0))
       ELSE /\ gather' = [gather EXCEPT !.nfinished = @ + 1]
            /\ ready' = Tail(ready)
            /\ UNCHANGED main
  /\ UNCHANGED <<tasks, devices, started, gamepad_active, mtask, bridge, fd,
                 held, finder, sigint, runner, activitySinceTick, lastEvent, env>>

\* main after "await watcher.stop()": inhibit_task.cancel() and return, or
\* the CancelledError of the gather leaves main.
MainAfterStop ==
  /\ Head1("main")
  /\ main.st = "wokenGather"
  /\ IF gather.outer = "result"
       THEN /\ bridge' = CancelBridge(bridge)
            /\ main' = [FinishMain(main, "returned") EXCEPT !.stop = "returned"]
            /\ ready' = Tail(ready) \o CancelBridgeWake(bridge) \o LoopStop
            /\ lastRun' = Ran("main", "none")
       ELSE /\ main' = [FinishMain(main, "cancelled") EXCEPT !.stop = "raised"]
            /\ ready' = Tail(ready) \o LoopStop
            /\ lastRun' = Ran("main", "CancelledError")
            /\ UNCHANGED bridge
  /\ UNCHANGED <<tasks, devices, started, gamepad_active, mtask, fd, held,
                 gather, finder, sigint, runner, activitySinceTick, lastEvent, env>>

\* The interrupt signal: asyncio.run cancels the main task (Task.cancel).
\* Task.cancel on a task that awaits another task cancels the awaited one:
\* a main suspended at "await inhibit_task" passes the cancellation on to
\* the Bridge task and is woken when that task is done.
Sigint ==
  /\ ~sigint
  /\ env < MaxEnv
  /\ env' = env + 1
  /\ runner = "running"
  /\ main.st \in {"new", "awaitBridge", "wokenBridge"}
  /\ sigint' = TRUE
  /\ IF main.st = "awaitBridge"
       THEN /\ bridge' = CancelBridge(bridge)
            /\ ready' = ready \o CancelBridgeWake(bridge)
            /\ UNCHANGED main
       ELSE /\ main' = [main EXCEPT !.must = TRUE]
            /\ UNCHANGED <<bridge, ready>>
  /\ UNCHANGED <<tasks, devices, started, gamepad_active, mtask, fd, held,
                 gather, finder, runner, lastRun, activitySinceTick, lastEvent>>

\* ========================================================== asyncio.run
Unfinished == {t \in TaskIds : mtask[t].st \notin {"free", "done"}}

\* the orders in which a set can be run through
Orders(S) ==
  {sq \in [1..Cardinality(S) -> S] :
     \A i, j \in 1..Cardinality(S) : i # j => sq[i] # sq[j]}

\* main is done: run_until_complete returns and _cancel_all_tasks cancels
\* every task that is not done (the set of all tasks has no order the
\* program fixes); the loop then runs until they are done.  The loop is
\* taken to stop at the handle that main's end queues.
RunnerCancelAll ==
  /\ Head1("loopstop")
  /\ runner = "running"
  /\ runner' = "teardown"
  /\ lastRun' = Ran("other", "none")
  /\ \E ord \in Orders(Unfinished) :
       /\ mtask' = CancelTasks(mtask, ord)
       /\ bridge' = CancelBridge(bridge)
       /\ \/ ready' = Tail(ready) \o CancelBridgeWake(bridge) \o CancelWakes(mtask, ord)
          \/ ready' = Tail(ready) \o CancelWakes(mtask, ord) \o CancelBridgeWake(bridge)
  /\ UNCHANGED <<tasks, devices, started, gamepad_active, fd, held, main,
                 gather, finder, sigint, activitySinceTick, lastEvent, env>>

\* the loop is closed once every cancelled task is done and its done
\* callbacks have run (finish_removing_device is added to a task before
\* the callback of the gather that _cancel_all_tasks waits for)
RunnerClose ==
  /\ runner = "teardown"
  /\ Unfinished = {}
  /\ bridge.st \in {"none", "done"}
  /\ \A i \in 1..Len(ready) : ready[i].k \notin {"finish", "gathercb"}
  /\ runner' = "closed"
  /\ UNCHANGED <<ready, tasks, devices, started, gamepad_active, mtask, bridge,
                 fd, held, main, gather, finder, sigint, lastRun,
                 activitySinceTick, lastEvent, env>>

\* =============================================================== the system
Next ==
  \/ Hotplug
  \/ \E p \in Paths : add_device(p)
  \/ \E p \in Paths : remove_device(p)
  \/ \E p \in Paths, t \in TaskIds : finish_removing_device(p, t)
  \/ \E t \in TaskIds : monitor_gamepad_events(t)
  \/ \E t \in TaskIds : InputEvent(t)
  \/ \E t \in TaskIds : ReadError(t)
  \/ BridgeFirstStep
  \/ BridgeCancelled
  \/ Tick
  \/ TimerFires
  \/ MainNeverRuns
  \/ MainStart
  \/ MainFails
  \/ MainShutdown
  \/ \E t \in TaskIds : GatherCallback(t)
  \/ MainAfterStop
  \/ Sigint
  \/ RunnerCancelAll
  \/ RunnerClose

Spec == Init /\ [][Next]_vars

\* The hotplug path alone: the observer thread and the loop, with no input
\* events, no timer expiry and no interrupt.  Every notification the
\* observer handles is kept in lastEvent.
NextFilter ==
  \/ Observe
  \/ MainStart
  \/ BridgeFirstStep
  \/ BridgeCancelled
  \/ \E p \in Paths : add_device(p)
  \/ \E p \in Paths : remove_device(p)
  \/ \E p \in Paths, t \in TaskIds : finish_removing_device(p, t)
  \/ \E t \in TaskIds : monitor_gamepad_events(t)
  \/ RunnerCancelAll
  \/ RunnerClose

SpecFilter == Init /\ [][NextFilter]_vars

\* ================================================================ claims

\* C1: after every sampling tick at which the lock service did not fail,
\* the idle lock is held if and only if an input event set the activity
\* flag since the previous tick: no event is lost between two ticks and
\* none is counted twice.
C1_TickFollowsActivity ==
  (lastRun.k = "tick" /\ lastRun.err = "none") =>
    (lastRun.active <=> fd # "None")

\* A tick without activity that follows a tick with activity: the lock that
\* the earlier tick acquired is released.
C1_Witness ==
  /\ lastRun.k = "tick" /\ lastRun.err = "none"
  /\ ~lastRun.active /\ lastRun.fdBefore = "fd" /\ fd = "None"

\* C2: a Bridge task cancelled in its sleep calls unlock_idle exactly once
\* in its last step, and in every state where the Bridge task has ended by
\* cancellation the program holds no inhibition lock.
C2_CancelledBridgeUnlocks ==
  /\ lastRun.k = "cancelled" =>
       (bridge.st = "done" /\ bridge.res = "cancelled" /\ bridge.finalUnlocks = 1)
  /\ bridge.res = "cancelled" => (fd = "None" /\ held = 0)

\* The Bridge is cancelled while idle-locked and its last step releases the lock.
C2_Witness ==
  /\ lastRun.k = "cancelled" /\ lastRun.fdBefore = "fd" /\ lastRun.released
  /\ bridge.res = "cancelled"

\* C3: the program holds at most one inhibition lock, and holds one exactly
\* when IdleLock.fd is set; lock_idle with a handle held requests nothing,
\* unlock_idle with no handle held releases nothing and raises no error.
C3_AtMostOneLock ==
  /\ held <= 1
  /\ (held = 1 <=> fd # "None")
  /\ (lastRun.op = "lock" /\ lastRun.fdBefore # "None") =>
       (~lastRun.requested /\ lastRun.err = "none")
  /\ (lastRun.op = "unlock" /\ lastRun.fdBefore = "None") =>
       (~lastRun.released /\ lastRun.err = "none")

\* lock_idle is called with the lock held, and one lock is held after it.
C3_Witness ==
  /\ lastRun.k = "tick" /\ lastRun.op = "lock" /\ lastRun.fdBefore = "fd"
  /\ held = 1

\* C4: no path ever has two monitor tasks that have not finished.
TasksOf(p) == {t \in TaskIds : mtask[t].path = p /\ mtask[t].st # "free"}
C4_OneTaskPerPath ==
  \A p \in Paths : Cardinality(TasksOf(p) \cap Unfinished) <= 1

\* A path gets its second task: the first has finished, the second has not.
C4_Witness ==
  \E p \in Paths : \E t1, t2 \in TasksOf(p) :
    /\ mtask[t1].st = "done"
    /\ t2 \in Unfinished

\* C5 (as claimed): remove_device raises no error, also when it is called
\* again for a path whose task an earlier remove_device has cancelled.
C5_RemoveAgainIsNoOp ==
  lastRun.k = "remove" => lastRun.err = "none"

\* C6: once GamepadsWatcher.stop has been left, started is false and no
\* monitor task is unfinished, whether the tasks were cancelled at their
\* read or before their first step.
C6_StopWaitsForTasks ==
  main.stop \in {"returned", "raised"} => (~started /\ Unfinished = {})

\* stop() is left after waiting for two tasks, one of them cancelled before
\* its first step.
C6_Witness ==
  /\ main.stop \in {"returned", "raised"}
  /\ Len(gather.children) = 2
  /\ \E t \in TaskIds : InSeq(t, gather.children) /\ mtask[t].res = "cancelled"

\* C7 (as claimed): a tick at which Inhibit fails leaves the handle unset
\* and the Bridge loop running.
C7_BridgeSurvivesInhibitFailure ==
  (lastRun.k = "tick" /\ lastRun.err = "DBusException") =>
    (fd = "None" /\ bridge.st # "done")

\* C8: the observer schedules cb_add only for an add, cb_remove only for a
\* remove, both only for a device with a true ID_INPUT_JOYSTICK and a
\* sys_name that starts with 'event'; any other notification schedules
\* nothing and raises nothing.
C8_FilterSchedules ==
  LET passes == /\ lastEvent.joystick = "1"
                /\ StartsWith(lastEvent.sys_name, <<"e", "v", "e", "n", "t">>) IN
  /\ lastEvent.scheduled = "add" => (lastEvent.action = "add" /\ passes)
  /\ lastEvent.scheduled = "remove" => (lastEvent.action = "remove" /\ passes)
  /\ (lastEvent.action \notin {"add", "remove"} \/ ~passes) =>
       lastEvent.scheduled = "none"

\* A remove notification of a joystick event device has been handed to the
\* loop: its callback waits in the queue.
C8_Witness ==
  /\ lastEvent.action = "remove" /\ lastEvent.scheduled = "remove"
  /\ ready # <<>>
  /\ ready[Len(ready)] = Handle("remove", lastEvent.path, 0)

\* C9 (as claimed): once GamepadsFinder.stop has returned, the loop runs no
\* add_device and no remove_device.
C9_NoCallbackAfterStop ==
  finder = "stopped" => lastRun.k \notin {"add", "remove"}

\* C10 (as claimed): when the interrupt cancels main, the Bridge task is
\* not cancelled before the Watcher and the Supervisor have been stopped.
C10_BridgeCancelledLast ==
  (sigint /\ bridge.cancelReq) =>
    (finder = "stopped" /\ main.stop \in {"returned", "raised"})

\* ------------------------------------------ GamepadsWatcher on its own
\* The Supervisor driven through its methods: a client task calls
\* set_init_devices, start and stop, each at most once and in this order
\* but any of them left out, one call per step of the loop; the callbacks
\* add_device and remove_device arrive at any time, as from the observer.
\* There is no Bridge.
InitWatcher ==
  /\ ready = <<>>
  /\ tasks = <<>>
  /\ devices = [p \in Paths |-> 0]
  /\ started = FALSE
  /\ gamepad_active = FALSE
  /\ mtask = [t \in TaskIds |-> FreeTask]
  /\ bridge = [st |-> "none", must |-> FALSE, cause |-> "none", res |-> "none",
               cancelReq |-> FALSE, finalUnlocks |-> 0]
  /\ fd = "None"
  /\ held = 0
  /\ main = [st |-> "calls0", must |-> FALSE, res |-> "none", stop |-> "no"]
  /\ gather = [children |-> <<>>, nfinished |-> 0, outer |-> "none"]
  /\ finder = "started"
  /\ sigint = FALSE
  /\ runner = "running"
  /\ lastRun = NoRun
  /\ activitySinceTick = FALSE
  /\ lastEvent = NoEvent
  /\ env = 0

ClientCalls == {"init", "start", "stop"}

\* the client's next call: it waits until the loop has run the previous one
ClientCall(c) ==
  /\ runner = "running"
  /\ \A i \in 1..Len(ready) : ready[i].k \notin ClientCalls
  /\ \/ c = "init"  /\ main.st = "calls0" /\ main' = [main EXCEPT !.st = "calls1"]
     \/ c = "start" /\ main.st \in {"calls0", "calls1"}
                    /\ main' = [main EXCEPT !.st = "calls2"]
     \/ c = "stop"  /\ main.st \in {"calls0", "calls1", "calls2"}
                    /\ main' = [main EXCEPT !.st = "calls3"]
  /\ ready' = Append(ready, Handle(c, NoPath, 0))
  /\ UNCHANGED <<tasks, devices, started, gamepad_active, mtask, bridge, fd,
                 held, gather, finder, sigint, runner, lastRun,
                 activitySinceTick, lastEvent, env>>

\* watcher.set_init_devices(devs), devs as discover finds them
WatcherInit ==
  /\ Head1("init")
  /\ \E attached \in SUBSET Paths :
       tasks' = set_init_devices(tasks, Enumerate(EnumOrder, attached))
  /\ ready' = Tail(ready)
  /\ lastRun' = Ran("init", "none")
  /\ UNCHANGED <<devices, started, gamepad_active, mtask, bridge, fd, held,
                 main, gather, finder, sigint, runner, activitySinceTick,
                 lastEvent, env>>

\* watcher.start(): n is the number of devices it opens before an open
\* fails (all, if none fails).  No task exists before the first start().
WatcherStart ==
  /\ Head1("start")
  /\ started' = TRUE
  /\ \E n \in 0..Len(tasks) :
       /\ n <= MaxTasks
       /\ tasks' = StartTasks(tasks, n)
       /\ devices' = [p \in Paths |->
                        IF \E i \in 1..n : tasks[i].key = p
                          THEN CHOOSE i \in 1..n : tasks[i].key = p ELSE 0]
       /\ mtask' = [t \in TaskIds |->
                      IF t <= n THEN NewTask(tasks[t].key) ELSE mtask[t]]
       /\ IF n = Len(tasks)
            THEN /\ ready' = Tail(ready) \o StartHandles(tasks, n)
                 /\ lastRun' = Ran("start", "none")
                 /\ UNCHANGED main
            ELSE \* evdev.InputDevice raises in start(): the client fails
                 /\ main' = FinishMain(main, "failed")
                 /\ ready' = Tail(ready) \o StartHandles(tasks, n) \o LoopStop
                 /\ lastRun' = Ran("start", "OSError")
  /\ UNCHANGED <<gamepad_active, bridge, fd, held, gather, finder, sigint,
                 runner, activitySinceTick, lastEvent, env>>

\* await watcher.stop() in the client
WatcherStop ==
  /\ Head1("stop")
  /\ AwaitStop("stop")
  /\ UNCHANGED finder

NextWatcher ==
  \/ \E c \in ClientCalls : ClientCall(c)
  \/ WatcherInit
  \/ WatcherStart
  \/ WatcherStop
  \/ Hotplug
  \/ \E p \in Paths : add_device(p)
  \/ \E p \in Paths : remove_device(p)
  \/ \E p \in Paths, t \in TaskIds : finish_removing_device(p, t)
  \/ \E t \in TaskIds : monitor_gamepad_events(t)
  \/ \E t \in TaskIds : GatherCallback(t)
  \/ MainAfterStop
  \/ RunnerCancelAll
  \/ RunnerClose

SpecWatcher == InitWatcher /\ [][NextWatcher]_vars

\* ------------------------------------------------------------- progress
\* The loop runs the handle at the head of its queue (run_forever).
LoopStep ==
  \/ \E p \in Paths : add_device(p)
  \/ \E p \in Paths : remove_device(p)
  \/ \E p \in Paths, t \in TaskIds : finish_removing_device(p, t)
  \/ \E t \in TaskIds : monitor_gamepad_events(t)
  \/ BridgeFirstStep
  \/ BridgeCancelled
  \/ Tick
  \/ MainNeverRuns
  \/ MainStart
  \/ MainFails
  \/ MainShutdown
  \/ \E t \in TaskIds : GatherCallback(t)
  \/ MainAfterStop
  \/ RunnerCancelAll

\* The Supervisor's part of the program: hotplug callbacks, the monitor
\* tasks with their read errors, the interrupt and the shutdown.  The timer
\* of the Bridge never expires here, so there is no tick and no input event
\* is sampled.
NextLive ==
  \/ Hotplug
  \/ \E p \in Paths : add_device(p)
  \/ \E p \in Paths : remove_device(p)
  \/ \E p \in Paths, t \in TaskIds : finish_removing_device(p, t)
  \/ \E t \in TaskIds : monitor_gamepad_events(t)
  \/ \E t \in TaskIds : ReadError(t)
  \/ BridgeFirstStep
  \/ BridgeCancelled
  \/ MainNeverRuns
  \/ MainStart
  \/ MainShutdown
  \/ \E t \in TaskIds : GatherCallback(t)
  \/ MainAfterStop
  \/ Sigint
  \/ RunnerCancelAll
  \/ RunnerClose

\* ... with a loop that keeps running its ready handles; the environment
\* (devices, udev, the interrupt) owes nothing.
SpecLive == Init /\ [][NextLive]_vars /\ WF_vars(LoopStep)

\* the entry of path p holds a task that has finished
StaleEntry(p) == Get(tasks, p) # 0 /\ mtask[Get(tasks, p)].st = "done"

\* C11: the completion callback of a monitor task leaves no entry for the
\* task's path in the task map; a task whose read fails with 'no such
\* device' (errno 19) returns normally, like a cancelled one; and an entry of the
\* task map that holds a finished task is eventually removed.
C11_FinishedTaskLeavesMap ==
  /\ [][\A p \in Paths, t \in TaskIds :
          finish_removing_device(p, t) => ~HasKey(tasks', p)]_vars
  /\ [][\A t \in TaskIds :
          (monitor_gamepad_events(t) /\ lastRun'.k = "mon"
             /\ lastRun'.err = "ENODEV") =>
            (mtask'[t].st = "done" /\ mtask'[t].res = "returned")]_vars
  /\ \A p \in Paths : StaleEntry(p) ~> ~StaleEntry(p)

\* The completion callback has just run for a task that ended on a read
\* error, and the path of the task has no entry.
C11_Witness ==
  /\ lastRun.k = "finish"
  /\ \E t \in TaskIds :
       /\ mtask[t].st = "done" /\ mtask[t].cause = "OSError"
       /\ ~HasKey(tasks, mtask[t].path)

\* the completion callback of task t has run: the task is done and its
\* callback is not in the queue
CleanedUp(t) ==
  /\ mtask[t].st = "done"
  /\ \A i \in 1..Len(ready) : ready[i] # Handle("finish", mtask[t].path, t)

\* C12 (as claimed): once a monitor task has finished and its completion
\* callback has run, GamepadsWatcher.devices no longer holds the handle the
\* task read from, and that handle is closed, whether the task ended by
\* remove_device, by the global stop or by a read error.
C12_HandleGoneAfterFinish ==
  \A t \in TaskIds :
    CleanedUp(t) =>
      (devices[mtask[t].path] # t /\ mtask[t].dev = "closed")

\* main has run up to "await inhibit_task" and the loop has run nothing
\* since: watcher.start() has just returned
JustStarted ==
  /\ lastRun.k = "main" /\ lastRun.err = "none"
  /\ main.st = "awaitBridge"

\* C13: when GamepadsWatcher.start has returned, started is true, the task
\* map holds the discovered paths, each with a task and none with None,
\* each of these paths has exactly one task, which has not finished and
\* reads the handle kept for the path, and no other task exists.
C13_StartBeginsOneTaskEach ==
  JustStarted =>
    /\ started
    /\ \E S \in SUBSET Paths : Keys(tasks) = Enumerate(EnumOrder, S)
    /\ \A i \in 1..Len(tasks) :
         /\ tasks[i].val # 0
         /\ TasksOf(tasks[i].key) = {tasks[i].val}
         /\ tasks[i].val \in Unfinished
         /\ devices[tasks[i].key] = tasks[i].val
    /\ Cardinality({t \in TaskIds : mtask[t].st # "free"}) = Len(tasks)

\* start() has returned with two discovered devices.
C13_Witness ==
  /\ JustStarted
  /\ Keys(tasks) = <<"event3", "event4">>
  /\ Cardinality(Unfinished) = 2

\* the entries of the paths other than p are the same in d and e
SameButFor(d, e, p) ==
  \A q \in Paths \ {p} : HasKey(d, q) = HasKey(e, q) /\ Get(d, q) = Get(e, q)

\* C14: while started is false, add_device(p) creates no task and opens no
\* handle and leaves p registered with None (or as it is, if p has a
\* task); remove_device(p) for a p registered with None drops the entry
\* and cancels nothing; and a start() that returns begins the tasks of
\* exactly the paths that are then in the task map.
C14_NotStartedOnlyRegisters ==
  /\ [][\A p \in Paths :
          (add_device(p) /\ ~started) =>
            /\ mtask' = mtask /\ devices' = devices
            /\ SameButFor(tasks, tasks', p)
            /\ HasKey(tasks', p)
            /\ Get(tasks', p) = Get(tasks, p)]_vars
  /\ [][\A p \in Paths :
          (remove_device(p) /\ HasKey(tasks, p) /\ Get(tasks, p) = 0) =>
            /\ mtask' = mtask /\ devices' = devices
            /\ SameButFor(tasks, tasks', p)
            /\ ~HasKey(tasks', p)]_vars
  /\ [][(WatcherStart /\ lastRun'.err = "none") =>
          /\ Keys(tasks') = Keys(tasks)
          /\ \A q \in Paths :
               IF HasKey(tasks, q)
                 THEN /\ Get(tasks', q) # 0
                      /\ TasksOf(q)' = {Get(tasks', q)}
                      /\ devices'[q] = Get(tasks', q)
                 ELSE TasksOf(q)' = {} /\ devices'[q] = 0]_vars

\* Three callbacks have run while the Supervisor was not started; start()
\* has then begun the one task of the one path they left registered.
C14_Witness ==
  /\ lastRun.k = "start" /\ lastRun.err = "none"
  /\ env = 3
  /\ \A i \in 1..Len(ready) : ready[i].k \notin {"add", "remove"}
  /\ Keys(tasks) = <<"event4">>
  /\ Get(tasks, "event4") \in Unfinished

\* the callbacks of the observer that the loop has not run yet
PendingCallbacks == SelectSeq(ready, LAMBDA h : h.k \in {"add", "remove"})

\* C15: the observer thread changes nothing of the Supervisor: it only
\* appends its callback to the loop's queue; the task map, the handles and
\* started change only in a step in which the loop runs the one handle at
\* the head of its queue; and the callbacks are applied in the order in
\* which the observer scheduled them: when none is pending, the callback
\* applied last is the one scheduled last.
C15_CallbacksInOrderOnLoop ==
  /\ [][env' # env =>        \* (a callback is scheduled: env counts them)
          \A n \in Passing :
            Notify(n) =>
              /\ UNCHANGED <<tasks, devices, started, gamepad_active, mtask>>
              /\ Len(ready') = Len(ready) + 1
              /\ SubSeq(ready', 1, Len(ready)) = ready]_vars
  /\ [][(tasks' # tasks \/ devices' # devices \/ started' # started) =>
          /\ ready # <<>>
          /\ Head(ready).k \in {"add", "remove", "finish", "main"}
          /\ Len(ready') >= Len(ready) - 1
          /\ SubSeq(ready', 1, Len(ready) - 1) = Tail(ready)]_vars
  /\ [][((/\ lastRun.k \in {"add", "remove"}
          /\ PendingCallbacks = <<>>
          /\ lastEvent.scheduled # "none") =>
           lastRun.k = lastEvent.scheduled)']_vars

\* The observer has scheduled an add and then a remove for one path; the
\* loop has applied both: the remove has cancelled the task that the add
\* created, before the first step of that task.
C15_Witness ==
  /\ lastRun.k = "remove" /\ lastRun.err = "none"
  /\ lastEvent.scheduled = "remove"
  /\ PendingCallbacks = <<>>
  /\ \E t \in TaskIds :
       /\ mtask[t].path = lastEvent.path
       /\ mtask[t].st = "new" /\ mtask[t].must

\* C16: gamepad_active goes from true to false only in a sampling tick,
\* which takes the branch of the value it read (lock_idle for true) and
\* leaves the flag false with no step of a monitor task in between; it goes
\* from false to true only in the step of a monitor task that has read an
\* input event; every other step leaves it as it is.
C16_OnlySamplingClears ==
  /\ [][(gamepad_active /\ ~gamepad_active') =>
          (Tick /\ lastRun'.op = "lock" /\ mtask' = mtask)]_vars
  /\ [][(~gamepad_active /\ gamepad_active') =>
          \E t \in TaskIds :
            monitor_gamepad_events(t) /\ mtask[t].cause = "event"]_vars
  /\ [][Tick => (/\ ~gamepad_active'
                 /\ lastRun'.op = "lock" <=> gamepad_active)]_vars

\* A tick has sampled a set flag: it took the branch of lock_idle and left
\* the flag cleared.
C16_Witness ==
  /\ lastRun.k = "tick" /\ lastRun.op = "lock" /\ lastRun.active
  /\ ~gamepad_active

\* C17: the step in which a monitor task meets a read error, errno 19 or
\* another, ends that task and changes nothing else: not the other tasks,
\* not the task map, not the Bridge, not main; its completion callback
\* changes only the entry of its path; and a task is created only by
\* start() or by add_device for the path of the task, so the path of the
\* failed task gets no new task before add_device runs for it.
C17_ReadErrorEndsOneTask ==
  /\ [][\A t \in TaskIds :
          (lastRun'.k = "mon" /\ monitor_gamepad_events(t)) =>
            /\ lastRun'.err \in {"ENODEV", "EIO"}
            /\ mtask'[t].st = "done"
            /\ \A u \in TaskIds \ {t} : mtask'[u] = mtask[u]
            /\ UNCHANGED <<tasks, devices, started, bridge, fd, held, main>>]_vars
  /\ [][\A p \in Paths, t \in TaskIds :
          (lastRun'.k = "finish" /\ finish_removing_device(p, t)) =>
            /\ SameButFor(tasks, tasks', p)
            /\ UNCHANGED <<mtask, devices, started, bridge, fd, held, main>>]_vars
  /\ [][\A t \in TaskIds :
          (mtask[t].st = "free" /\ mtask'[t].st # "free") =>
            /\ ready # <<>>
            /\ \/ Head(ready).k = "main" /\ main.st = "new"
               \/ Head(ready).k = "add" /\ Head(ready).p = mtask'[t].path]_vars

\* A task has just ended on a read error other than 'no such device'
\* while the task of the other path waits for its read and the Bridge
\* sleeps.
C17_Witness ==
  /\ lastRun.k = "mon" /\ lastRun.err = "EIO"
  /\ bridge.st = "sleeping"
  /\ \E t, u \in TaskIds :
       /\ mtask[t].st = "done" /\ mtask[t].cause = "OSError"
       /\ mtask[u].st = "reading" /\ mtask[u].path # mtask[t].path
       /\ Get(tasks, mtask[u].path) = u

\* The hotplug path with a loop that keeps running: devices come and go,
\* no read fails, the timer of the Bridge does not expire and no interrupt
\* arrives.
NextReplug ==
  \/ Hotplug
  \/ MainStart
  \/ BridgeFirstStep
  \/ BridgeCancelled
  \/ \E p \in Paths : add_device(p)
  \/ \E p \in Paths : remove_device(p)
  \/ \E p \in Paths, t \in TaskIds : finish_removing_device(p, t)
  \/ \E t \in TaskIds : monitor_gamepad_events(t)
  \/ RunnerCancelAll
  \/ RunnerClose

SpecReplug == Init /\ [][NextReplug]_vars /\ WF_vars(LoopStep)

\* add_device has just run for path p, the only path of the task map, with
\* the Supervisor started and main waiting for the Bridge; the handle could
\* be opened, and no further notification arrives.
LastWasAdd(p) ==
  /\ lastRun.k = "add" /\ lastRun.err \in {"none", "present"}
  /\ Keys(tasks) = <<p>> /\ Get(tasks, p) # 0
  /\ started /\ ~sigint /\ main.st = "awaitBridge" /\ runner = "running"
  /\ PendingCallbacks = <<>>
  /\ env = MaxEnv

\* path p has a monitor task that runs and is not being cancelled
HasRunningTask(p) ==
  /\ Get(tasks, p) # 0
  /\ Get(tasks, p) \in Unfinished
  /\ ~mtask[Get(tasks, p)].must
  /\ mtask[Get(tasks, p)].cause # "cancel"

\* C18 (as claimed): when the last callback applied for a path is an add,
\* the path eventually has a running monitor task, also when the add ran
\* after a remove_device for the path and before the completion callback
\* of the cancelled task.
C18_AddNotLost ==
  \A p \in Paths : LastWasAdd(p) ~> HasRunningTask(p)

\* C19 (as claimed): GamepadsWatcher.stop is never left by an exception,
\* whatever the task map holds when it is called, entries with None
\* included.
C19_StopCompletesWithoutError ==
  /\ lastRun.k = "stop" => lastRun.err = "none"
  /\ main.stop # "raised"

\* C20: every completion callback that waits in the queue belongs to a
\* finished task that the task map still holds under the callback's path,
\* so finish_removing_device deletes the entry of its own task: never a
\* missing key, never an entry with None, never the entry of a newer task.
C20_FinishDeletesOwnEntry ==
  /\ \A i \in 1..Len(ready) :
       ready[i].k = "finish" =>
         /\ mtask[ready[i].t].st = "done"
         /\ mtask[ready[i].t].path = ready[i].p
         /\ Get(tasks, ready[i].p) = ready[i].t
  /\ lastRun.k = "finish" => lastRun.err = "none"

\* The completion callback of a task that remove_device cancelled has run;
\* the path then got a new task, whose entry the map holds.
C20_Witness ==
  /\ lastRun.k = "add" /\ lastRun.err = "none"
  /\ \E t1, t2 \in TaskIds :
       /\ t1 # t2 /\ mtask[t1].path = mtask[t2].path
       /\ mtask[t1].st = "done" /\ mtask[t1].cause = "cancel"
       /\ CleanedUp(t1)
       /\ Get(tasks, mtask[t2].path) = t2 /\ t2 \in Unfinished

====
